---- MODULE Spec2Model ----
(***************************************************************************)
(* CLTV & ROI dashboard (src/app.py): the metrics computation, the         *)
(* reallocation simulator and the Gradio session callbacks around them.    *)
(*                                                                         *)
(* Numbers.  The program computes in IEEE doubles (pandas/numpy).  A       *)
(* number is modelled as a pair <<n, d>>: a reduced fraction n/d with      *)
(* d > 0, or one of the non-finite doubles  <<1,0>> = +inf,                *)
(* <<-1,0>> = -inf, <<0,0>> = NaN.  The input domains below are chosen so  *)
(* that the finite values met are small fractions.  Signed zeros are not   *)
(* distinguished.                                                          *)
(*                                                                         *)
(* Optional values.  Python's None is the empty sequence <<>> and a held   *)
(* value x is <<x>>.                                                       *)
(*                                                                         *)
(* Not carried: the plots, the formatted summary text of a simulation      *)
(* (only which message is returned), and the two percentage-change fields  *)
(* of its result, whose divisor (current + 1e-9) is outside the small      *)
(* fractions used here.                                                    *)
(***************************************************************************)
EXTENDS Integers, Sequences, FiniteSets, TLC

VARIABLES state_df, state_by, state_meta, files, resp, click, lastLoad

vars == <<state_df, state_by, state_meta, files, resp, click, lastLoad>>

None == << >>

Some(x) == <<x>>

(***************************************************************************)
(* Extended numbers                                                        *)
(***************************************************************************)
Abs(x) == IF x < 0 THEN -x ELSE x

Sign(x) == IF x < 0 THEN -1 ELSE IF x > 0 THEN 1 ELSE 0

RECURSIVE Gcd(_, _)
Gcd(a, b) == IF b = 0 THEN a ELSE Gcd(b, a % b)

Norm(n, d) ==
    IF d = 0 THEN <<Sign(n), 0>>
    ELSE LET g == Gcd(Abs(n), Abs(d))
         IN  <<(Sign(d) * n) \div g, Abs(d) \div g>>

NaN == <<0, 0>>

Inf == <<1, 0>>

Zero == <<0, 1>>

One == <<1, 1>>

Num(k) == <<k, 1>>

IsNaN(x) == x = NaN

IsFinite(x) == x[2] # 0

Add(x, y) ==
    IF x[2] = 0 /\ y[2] = 0
    THEN (IF x = y THEN x ELSE NaN)
    ELSE Norm(x[1] * y[2] + y[1] * x[2], x[2] * y[2])

Neg(x) == <<-x[1], x[2]>>

Sub(x, y) == Add(x, Neg(y))

Mul(x, y) == Norm(x[1] * y[1], x[2] * y[2])

\* 1/y: 1/0 = +inf, 1/(+-inf) = 0, 1/NaN = NaN.
Recip(y) ==
    IF y[1] = 0 THEN (IF y[2] = 0 THEN NaN ELSE Inf)
    ELSE IF y[2] = 0 THEN Zero
    ELSE <<Sign(y[1]) * y[2], Abs(y[1])>>

Div(x, y) == Mul(x, Recip(y))

\* x < y on doubles: false when either side is NaN.
Less(x, y) ==
    /\ ~IsNaN(x)
    /\ ~IsNaN(y)
    /\ x # y
    /\ IF x[2] = 0 THEN x[1] < 0
       ELSE IF y[2] = 0 THEN y[1] > 0
       ELSE x[1] * y[2] < y[1] * x[2]

\* round(x, 2): to the nearest hundredth, exact ties to the even hundredth;
\* NaN and the infinities are returned as they are.
Round2(x) ==
    IF ~IsFinite(x) THEN x
    ELSE LET m == 100 * x[1]
             f == m \div x[2]
             r == m - f * x[2]
             q == IF 2 * r < x[2] THEN f
                  ELSE IF 2 * r > x[2] THEN f + 1
                  ELSE IF f % 2 = 0 THEN f ELSE f + 1
         IN  Norm(q, 100)

RECURSIVE SumSeq(_)
SumSeq(s) == IF s = << >> THEN Zero ELSE Add(Head(s), SumSeq(Tail(s)))

\* pandas sum(): missing (NaN) values are skipped.
NanSum(s) == SumSeq(SelectSeq(s, LAMBDA v : ~IsNaN(v)))

\* pandas mean(): the mean of the non-NaN values, NaN when there is none.
NanMean(s) ==
    LET t == SelectSeq(s, LAMBDA v : ~IsNaN(v))
    IN  IF t = << >> THEN NaN ELSE Div(SumSeq(t), Num(Len(t)))

\* df[col]: the values of one column, in row order.
Col(s, col) == [i \in 1..Len(s) |-> s[i][col]]

Range(s) == {s[i] : i \in 1..Len(s)}

(***************************************************************************)
(* Input domains                                                           *)
(***************************************************************************)
\* Largest number of data rows of an input table.
MaxRows == 2

\* Largest number of data rows of a table used in the multi-load sessions.
MaxSessionRows == 1

REQUIRED_COLS == <<"customer_id", "channel", "cost", "conversion_rate", "revenue">>

\* Channel labels, in the (lexicographic) order groupby sorts its keys.
ChannelOrder == <<"a", "b">>

Costs == {Zero, Num(8)}

ConvRates == {<<1, 2>>}

Revenues == {Zero, Num(2)}

RowVals ==
    [channel : Range(ChannelOrder), cost : Costs,
     conversion_rate : ConvRates, revenue : Revenues]

\* The data rows of a CSV file: customer_id is the row's position.
WithIds(f) ==
    [i \in 1..Len(f) |->
        [customer_id |-> i, channel |-> f[i].channel, cost |-> f[i].cost,
         conversion_rate |-> f[i].conversion_rate, revenue |-> f[i].revenue]]

RowSeqs(vals, n) == {WithIds(f) : f \in UNION {[1..k -> vals] : k \in 0..n}}

ColSets == {(Range(REQUIRED_COLS) \ m) \cup e :
            m \in SUBSET Range(REQUIRED_COLS), e \in {{}, {"notes"}}}

Complete(cols) == Range(REQUIRED_COLS) \subseteq cols

\* pd.read_csv results: a header (cols) and data rows.  Rows are only read
\* by the program once every required column is present, so tables that
\* lack a column are represented with no rows.
Tables(vals, n) ==
    {[cols |-> c, rows |-> r] :
        c \in {x \in ColSets : Complete(x)}, r \in RowSeqs(vals, n)}
    \cup {[cols |-> c, rows |-> << >>] : c \in {x \in ColSets : ~Complete(x)}}

AllTables == Tables(RowVals, MaxRows)

\* The tables of the multi-load sessions: finite-cost rows with revenue,
\* under a complete header or one that lacks "revenue".
SessionTables ==
    {t \in Tables({r \in RowVals : r.cost = Num(8) /\ r.revenue = Num(2)},
                  MaxSessionRows) :
        \/ t.cols = Range(REQUIRED_COLS)
        \/ t.cols = Range(REQUIRED_COLS) \ {"revenue"}}

(***************************************************************************)
(* MetricsEngine: _ensure_cols, _compute_metrics                           *)
(***************************************************************************)
\* Mutant of ensure_cols: stops at the first missing column.
ensure_cols_first(df) ==
    LET m == SelectSeq(REQUIRED_COLS, LAMBDA c : c \notin df.cols)
    IN  IF m = << >> THEN m ELSE <<m[1]>>

\* The list `missing` of _ensure_cols; ValueError is raised iff it is
\* not empty.
ensure_cols(df) == SelectSeq(REQUIRED_COLS, LAMBDA c : c \notin df.cols)

roi(r) == Div(r.revenue, r.cost)

cltv(r) == Div(Mul(Sub(r.revenue, r.cost), r.conversion_rate), r.cost)

enrich(r) ==
    [customer_id |-> r.customer_id, channel |-> r.channel, cost |-> r.cost,
     conversion_rate |-> r.conversion_rate, revenue |-> r.revenue,
     roi |-> roi(r), cltv |-> cltv(r)]

\* df.groupby("channel").agg(...): one row per channel, keys sorted.
agg(rows, ch) ==
    LET g == SelectSeq(rows, LAMBDA r : r.channel = ch)
    IN  [channel       |-> ch,
         customers     |-> Len(g),
         avg_cost      |-> NanMean(Col(g, "cost")),
         avg_conv_rate |-> NanMean(Col(g, "conversion_rate")),
         total_revenue |-> NanSum(Col(g, "revenue")),
         avg_roi       |-> NanMean(Col(g, "roi")),
         avg_cltv      |-> NanMean(Col(g, "cltv"))]

groupby_agg(rows) ==
    LET keys == SelectSeq(ChannelOrder,
                          LAMBDA ch : \E i \in 1..Len(rows) : rows[i].channel = ch)
    IN  [i \in 1..Len(keys) |-> agg(rows, keys[i])]

\* Whether the index sequence p is a result of
\* sort_values("avg_cltv", ascending=False) on g: the rows with a value come
\* first, in non-increasing order, and the NaN rows last in their original
\* order.  The default kind="quicksort" is not a stable sort, so the relative
\* order of rows with equal avg_cltv is not determined.
IsSorted(g, p) ==
    \A i, j \in 1..Len(g) :
        i < j =>
            LET x == g[p[i]].avg_cltv
                y == g[p[j]].avg_cltv
            IN  IF IsNaN(x) THEN IsNaN(y) /\ p[i] < p[j]
                ELSE ~Less(x, y)

\* Mutant of sort_values: ascending=True.
sort_values_ascending(g) ==
    LET n == Len(g)
        perms == {p \in [1..n -> 1..n] : \A i, j \in 1..n : p[i] = p[j] => i = j}
        rev(p) == [i \in 1..n |-> p[n + 1 - i]]
    IN  {[i \in 1..n |-> g[p[i]]] : p \in {q \in perms : IsSorted(g, rev(q))}}

sort_values(g) ==
    LET n == Len(g)
        perms == {p \in [1..n -> 1..n] : \A i, j \in 1..n : p[i] = p[j] => i = j}
    IN  {[i \in 1..n |-> g[p[i]]] : p \in {q \in perms : IsSorted(g, q)}}

\* by_channel["revenue_share_%"] = 100 * total_revenue / total_revenue.sum()
revenue_share(by) ==
    LET total == NanSum(Col(by, "total_revenue"))
    IN  [i \in 1..Len(by) |->
            [channel       |-> by[i].channel,
             customers     |-> by[i].customers,
             avg_cost      |-> by[i].avg_cost,
             avg_conv_rate |-> by[i].avg_conv_rate,
             total_revenue |-> by[i].total_revenue,
             avg_roi       |-> by[i].avg_roi,
             avg_cltv      |-> by[i].avg_cltv,
             revenue_share |-> Div(Mul(Num(100), by[i].total_revenue), total)]]

meta_of(rows) ==
    [rows                 |-> Len(rows),
     channels             |-> Cardinality({rows[i].channel : i \in 1..Len(rows)}),
     current_weighted_roi |-> NanMean(Col(rows, "roi")),
     current_avg_cltv     |-> NanMean(Col(rows, "cltv"))]

\* What a handler call produces: it either raises (error, msg, missing) or
\* returns; which of the other fields are used depends on the handler.
Returned ==
    [raised |-> FALSE, error |-> "", msg |-> "", missing |-> << >>,
     outputs |-> << >>, status |-> << >>, delta |-> None, paths |-> << >>]

Raised(e, m) == [Returned EXCEPT !.raised = TRUE, !.error = e, !.msg = m]

\* The results a call can produce (more than one only when avg_cltv ties):
\* ValueError from _ensure_cols, or (df, by_channel, meta).
compute_metrics(df) ==
    IF ensure_cols(df) # << >>
    THEN {[Raised("ValueError", "Missing columns") EXCEPT !.missing = ensure_cols(df)]}
    ELSE LET rows == [i \in 1..Len(df.rows) |-> enrich(df.rows[i])]
             out  == [cols |-> df.cols \cup {"roi", "cltv"}, rows |-> rows]
         IN  {[Returned EXCEPT
                  !.outputs = <<Some(out), Some(revenue_share(by)), Some(meta_of(rows))>>] :
              by \in sort_values(groupby_agg(rows))}

\* disk: what DATAFILE holds when the call is made, None when there is no
\* such file.
load_builtin(disk) ==
    IF disk = None
    THEN {Raised("gr.Error", "Default dataset not found in repo root.")}
    ELSE compute_metrics(disk[1])

load_uploaded(file, disk) ==
    IF file = None THEN load_builtin(disk) ELSE compute_metrics(file[1])

(***************************************************************************)
(* ReallocationSimulator: simulate_reallocation                            *)
(***************************************************************************)
\* Keys an allocation may name; "zz" is a channel of no report.
AllocKeys == {"a", "b", "zz"}

Weights == {0, 1, 100}

EmptyObj == [k \in {} |-> [num |-> TRUE, v |-> 0]]

\* The allocation text, by what json.loads makes of it:
\*   "none"    no text (None),      "empty"  the empty string,
\*   "garbage" not JSON,            "array"  JSON, but not an object,
\*   "object"  a JSON object obj; a value is a number v (num) or a string.
NumberObjects ==
    UNION {[ks -> [num : {TRUE}, v : Weights]] : ks \in SUBSET AllocKeys}

StringObjects == {[k \in {c} |-> [num |-> FALSE, v |-> 0]] : c \in AllocKeys}

AllocTexts ==
    {[kind |-> k, obj |-> EmptyObj] : k \in {"none", "empty", "garbage", "array"}}
    \cup {[kind |-> "object", obj |-> o] : o \in NumberObjects \cup StringObjects}

\* The allocation texts of the multi-load sessions: at most one key.
SessionAllocTexts == {t \in AllocTexts : Cardinality(DOMAIN t.obj) <= 1}

\* json.loads(allocations_json or "{}")
json_loads(text) ==
    IF text.kind \in {"none", "empty"}
    THEN [raised |-> FALSE, dict |-> TRUE, obj |-> EmptyObj]
    ELSE IF text.kind = "garbage"
    THEN [raised |-> TRUE, dict |-> FALSE, obj |-> EmptyObj]
    ELSE [raised |-> FALSE, dict |-> text.kind = "object", obj |-> text.obj]

SetToSeq(S) ==
    CHOOSE q \in [1..Cardinality(S) -> S] : \A i, j \in 1..Cardinality(S) : q[i] = q[j] => i = j

\* sum(alloc.values()) or 1.0
alloc_sum(alloc) ==
    LET keys  == SetToSeq(DOMAIN alloc)
        total == SumSeq([i \in 1..Len(keys) |-> Num(alloc[keys[i]].v)])
    IN  IF total = Zero THEN One ELSE total

\* Mutant of weights_of: the weights are not divided by their sum.
weights_of_unnormalised(alloc, by) ==
    [k \in DOMAIN alloc \cup {by[i].channel : i \in 1..Len(by)} |->
        IF k \in DOMAIN alloc THEN Num(alloc[k].v) ELSE Zero]

\* weights after normalisation and the setdefault loop over the report.
weights_of(alloc, by) ==
    LET s == alloc_sum(alloc)
    IN  [k \in DOMAIN alloc \cup {by[i].channel : i \in 1..Len(by)} |->
            IF k \in DOMAIN alloc THEN Div(Num(alloc[k].v), s) ELSE Zero]

\* The structured result.  Its two percentage-change fields, which divide by
\* (current + 1e-9), are not carried.
delta_of(by, weights) ==
    LET n        == Len(by)
        new_roi  == SumSeq([i \in 1..n |-> Mul(by[i].avg_roi, weights[by[i].channel])])
        new_cltv == SumSeq([i \in 1..n |-> Mul(by[i].avg_cltv, weights[by[i].channel])])
        cur_w(c) == Div(c.revenue_share, Num(100))
        cur_roi  == SumSeq([i \in 1..n |-> Mul(by[i].avg_roi, cur_w(by[i]))])
        cur_cltv == SumSeq([i \in 1..n |-> Mul(by[i].avg_cltv, cur_w(by[i]))])
    IN  [current_weighted_roi  |-> Round2(cur_roi),
         new_weighted_roi      |-> Round2(new_roi),
         current_weighted_cltv |-> Round2(cur_cltv),
         new_weighted_cltv     |-> Round2(new_cltv)]

\* Mutant of simulate_reallocation: an empty report is not turned away.
simulate_reallocation_nonempty(by_df, text) ==
    LET parsed == json_loads(text)
    IN  IF parsed.raised
        THEN [Returned EXCEPT !.msg = "Invalid JSON."]
        ELSE IF by_df = None
        THEN [Returned EXCEPT !.msg = "Load data first."]
        ELSE IF ~parsed.dict
        THEN Raised("AttributeError", "no attribute 'values'")
        ELSE IF \E k \in DOMAIN parsed.obj : ~parsed.obj[k].num
        THEN Raised("TypeError", "unsupported operand type(s) for +")
        ELSE LET by      == by_df[1]
                 weights == weights_of(parsed.obj, by)
             IN  IF \E k \in DOMAIN weights : \A i \in 1..Len(by) : by[i].channel # k
                 THEN Raised("KeyError", "kpis.loc[ch]")
                 ELSE [Returned EXCEPT !.msg = "ROI/CLTV summary",
                                       !.delta = Some(delta_of(by, weights))]

\* by_df: None or Some(channel report).
simulate_reallocation(by_df, text) ==
    LET parsed == json_loads(text)
    IN  IF parsed.raised
        THEN [Returned EXCEPT !.msg = "Invalid JSON."]
        ELSE IF by_df = None \/ by_df[1] = << >>
        THEN [Returned EXCEPT !.msg = "Load data first."]
        ELSE IF ~parsed.dict
        THEN Raised("AttributeError", "no attribute 'values'")
        ELSE IF \E k \in DOMAIN parsed.obj : ~parsed.obj[k].num
        THEN Raised("TypeError", "unsupported operand type(s) for +")
        ELSE LET by      == by_df[1]
                 weights == weights_of(parsed.obj, by)
             IN  IF \E k \in DOMAIN weights : \A i \in 1..Len(by) : by[i].channel # k
                 THEN Raised("KeyError", "kpis.loc[ch]")
                 ELSE [Returned EXCEPT !.msg = "ROI/CLTV summary",
                                       !.delta = Some(delta_of(by, weights))]
(***************************************************************************)
(* Session callbacks                                                       *)
(***************************************************************************)
\* Mutant of render: the report is left out of the returned state.
render_partial(o, msg_prefix) ==
    [o EXCEPT !.outputs = <<o.outputs[1], None, o.outputs[3]>>,
              !.status = <<msg_prefix, o.outputs[3][1].rows, o.outputs[3][1].channels>>]

\* _render: the new (state_df, state_by, state_meta) and the status text.
render(o, msg_prefix) ==
    [o EXCEPT !.status = <<msg_prefix, o.outputs[3][1].rows, o.outputs[3][1].channels>>]

on_load_uploaded(file, disk) ==
    {IF o.raised THEN o ELSE render(o, "Uploaded CSV loaded") :
        o \in load_uploaded(file, disk)}

on_load_builtin(disk) ==
    {IF o.raised THEN o ELSE render(o, "Built-in dataset loaded") :
        o \in load_builtin(disk)}

\* _simulate(alloc_json, by)
simulate(alloc_json, by) == simulate_reallocation(by, alloc_json)

\* Mutant of downloads: the test on by is inverted.
downloads_inverted(df, by) ==
    IF df = None \/ by # None
    THEN Raised("gr.Error", "Load data first.")
    ELSE [Returned EXCEPT
             !.paths = <<"/tmp/customer_with_metrics.csv", "/tmp/channel_summary.csv">>]

\* _downloads(df, by): the paths returned, or gr.Error.
downloads(df, by) ==
    IF df = None \/ by = None
    THEN Raised("gr.Error", "Load data first.")
    ELSE [Returned EXCEPT
             !.paths = <<"/tmp/customer_with_metrics.csv", "/tmp/channel_summary.csv">>]

Tag(r, h) ==
    [handler |-> h, raised |-> r.raised, error |-> r.error, msg |-> r.msg,
     missing |-> r.missing, status |-> r.status, delta |-> r.delta, paths |-> r.paths]

\* The inputs of a click: the table a load read (None when it read none)
\* and the allocation text of a simulation.
Click(file, text) == [file |-> file, text |-> text]

\* Session state starts unset (gr.State()), no export file is written yet.
\* resp is what the most recent click produced, click what it was given, and
\* lastLoad the input table of the most recent load that returned.
Init ==
    /\ state_df = None
    /\ state_by = None
    /\ state_meta = None
    /\ files = None
    /\ resp = Tag(Returned, "start")
    /\ click = Click(None, None)
    /\ lastLoad = None

\* Mutant of LoadUploaded: a failed load clears the session state.
LoadUploadedClearing(file, disk) ==
    \E r \in on_load_uploaded(file, disk) :
        /\ state_df'   = IF r.raised THEN None ELSE r.outputs[1]
        /\ state_by'   = IF r.raised THEN None ELSE r.outputs[2]
        /\ state_meta' = IF r.raised THEN None ELSE r.outputs[3]
        /\ lastLoad'   = IF r.raised THEN lastLoad
                         ELSE IF file = None THEN disk ELSE file
        /\ resp' = Tag(r, "on_load_uploaded")
        /\ click' = Click(IF file = None THEN disk ELSE file, None)
        /\ UNCHANGED files

\* load_btn.click: file is the upload widget's value (None: no upload).
\* A click whose handler raises updates none of its outputs.
LoadUploaded(file, disk) ==
    \E r \in on_load_uploaded(file, disk) :
        /\ state_df'   = IF r.raised THEN state_df ELSE r.outputs[1]
        /\ state_by'   = IF r.raised THEN state_by ELSE r.outputs[2]
        /\ state_meta' = IF r.raised THEN state_meta ELSE r.outputs[3]
        /\ lastLoad'   = IF r.raised THEN lastLoad
                         ELSE IF file = None THEN disk ELSE file
        /\ resp' = Tag(r, "on_load_uploaded")
        /\ click' = Click(IF file = None THEN disk ELSE file, None)
        /\ UNCHANGED files

\* builtin_btn.click
LoadBuiltin(disk) ==
    \E r \in on_load_builtin(disk) :
        /\ state_df'   = IF r.raised THEN state_df ELSE r.outputs[1]
        /\ state_by'   = IF r.raised THEN state_by ELSE r.outputs[2]
        /\ state_meta' = IF r.raised THEN state_meta ELSE r.outputs[3]
        /\ lastLoad'   = IF r.raised THEN lastLoad ELSE disk
        /\ resp' = Tag(r, "on_load_builtin")
        /\ click' = Click(disk, None)
        /\ UNCHANGED files

\* sim_btn.click: outputs are sim_out and sim_json only.
Simulate(alloc_json) ==
    /\ resp' = Tag(simulate(alloc_json, state_by), "_simulate")
    /\ click' = Click(None, Some(alloc_json))
    /\ UNCHANGED <<state_df, state_by, state_meta, files, lastLoad>>

\* gen_btn.click: writes the two CSV files unless it raises.
Downloads ==
    LET r == downloads(state_df, state_by)
    IN  /\ files' = IF r.raised THEN files ELSE Some(<<state_df[1], state_by[1]>>)
        /\ resp' = Tag(r, "_downloads")
        /\ click' = Click(None, None)
        /\ UNCHANGED <<state_df, state_by, state_meta, lastLoad>>

Uploads(tables) == {None} \cup {Some(t) : t \in tables}

Disks(tables) == {None} \cup {Some(t) : t \in {x \in tables : x.cols = Range(REQUIRED_COLS)}}

SessionUploads == Uploads(SessionTables)

SessionDisks == Disks(SessionTables)

AllUploads == Uploads(AllTables) \ {None}

\* A session: any sequence of the four user actions.
Next ==
    \/ \E file \in SessionUploads :
          \E disk \in (IF file = None THEN SessionDisks ELSE {None}) :
             LoadUploaded(file, disk)
    \/ \E disk \in SessionDisks : LoadBuiltin(disk)
    \/ \E text \in SessionAllocTexts : Simulate(text)
    \/ Downloads

Spec == Init /\ [][Next]_vars

\* The two core functions on every input: one load of any input table, then
\* one simulation on what is held.
NextCompute ==
    \/ /\ resp.handler = "start"
       /\ \E file \in AllUploads : LoadUploaded(file, None)
    \/ /\ resp.handler # "_simulate"
       /\ \E text \in AllocTexts : Simulate(text)

SpecCompute == Init /\ [][NextCompute]_vars
(***************************************************************************)
(* Properties                                                              *)
(***************************************************************************)
Triple == <<state_df, state_by, state_meta>>

IsLoad == resp.handler \in {"on_load_uploaded", "on_load_builtin"}

IsSim == resp.handler = "_simulate"

\* The allocation text of the simulation that produced resp (when IsSim).
Text == click.text[1]

HasReport == state_by # None /\ state_by[1] # << >>

ReportChannels == {state_by[1][i].channel : i \in 1..Len(state_by[1])}

RowOf(ch) == CHOOSE c \in Range(state_by[1]) : c.channel = ch

\* The text is a key->number mapping.
IsNumberObject(t) == t.kind = "object" /\ \A k \in DOMAIN t.obj : t.obj[k].num

\* Sum over the report's channels of column col times the normalised weight,
\* weights of channels the mapping does not name being 0.
Blend(t, col) ==
    LET s == alloc_sum(t.obj)
        w(ch) == IF ch \in DOMAIN t.obj THEN Div(Num(t.obj[ch].v), s) ELSE Zero
    IN  SumSeq([i \in 1..Len(state_by[1]) |->
                   Mul(state_by[1][i][col], w(state_by[1][i].channel))])

\* C1 (as claimed): a simulation on a non-empty report whose key->number
\* mapping names a channel that is not in the report raises nothing and
\* returns a result whose new_weighted_roi and new_weighted_cltv are the sums
\* over the report's channels only.
C1_AbsentKeysIgnored ==
    (IsSim /\ HasReport /\ IsNumberObject(Text)
        /\ ~(DOMAIN Text.obj \subseteq ReportChannels))
    => /\ ~resp.raised
       /\ resp.delta # None
       /\ resp.delta[1].new_weighted_roi = Round2(Blend(Text, "avg_roi"))
       /\ resp.delta[1].new_weighted_cltv = Round2(Blend(Text, "avg_cltv"))

\* Position of the first input row of channel ch in the loaded table.
FirstRow(ch) ==
    CHOOSE i \in 1..Len(state_df[1].rows) :
        /\ state_df[1].rows[i].channel = ch
        /\ \A j \in 1..(i - 1) : state_df[1].rows[j].channel # ch

\* Non-increasing avg_cltv, the channels without a value (NaN) last.
Descending(by) ==
    \A i, j \in 1..Len(by) :
        i < j => /\ IsNaN(by[i].avg_cltv) => IsNaN(by[j].avg_cltv)
                 /\ ~Less(by[i].avg_cltv, by[j].avg_cltv)

\* C2 (as claimed): the channel summary is sorted by avg_cltv descending and
\* two channels with equal avg_cltv appear in the order in which they are
\* first met in the input rows.
C2_TiesInEncounterOrder ==
    state_by # None =>
        /\ Descending(state_by[1])
        /\ \A i, j \in 1..Len(state_by[1]) :
              (i < j /\ ~IsNaN(state_by[1][i].avg_cltv)
                     /\ state_by[1][i].avg_cltv = state_by[1][j].avg_cltv)
              => FirstRow(state_by[1][i].channel) < FirstRow(state_by[1][j].channel)

\* C2 (amended): the channel summary is sorted by avg_cltv descending
\* (channels whose avg_cltv is NaN last); nothing is said of the order of ties.
C2_SortedByAvgCltv == state_by # None => Descending(state_by[1])

C2_Witness ==
    /\ state_by # None
    /\ Len(state_by[1]) = 2
    /\ Less(state_by[1][2].avg_cltv, state_by[1][1].avg_cltv)
    /\ FirstRow(state_by[1][2].channel) < FirstRow(state_by[1][1].channel)

\* C3: a load of a table that lacks required columns fails with one
\* ValueError whose list is exactly the absent required columns (each once)
\* and produces no table, report or stats; a table with all five columns
\* (extra columns allowed) passes validation.
C3_MissingColumnsReported ==
    (IsLoad /\ click.file # None) =>
        LET cols == click.file[1].cols
        IN  IF Complete(cols)
            THEN ~resp.raised /\ state_df # None /\ state_by # None /\ state_meta # None
            ELSE /\ resp.raised
                 /\ resp.error = "ValueError"
                 /\ Range(resp.missing) = Range(REQUIRED_COLS) \ cols
                 /\ Len(resp.missing) = Cardinality(Range(REQUIRED_COLS) \ cols)
                 /\ Triple = <<None, None, None>>

C3_Witness ==
    /\ IsLoad
    /\ click.file # None
    /\ resp.raised
    /\ Range(resp.missing) = {"cost", "revenue"}
    /\ "notes" \in click.file[1].cols

\* C4 (as claimed): a simulation whose text is not a parseable key->number
\* mapping never raises: it returns an error message and a null result.
C4_MalformedTextRecovered ==
    (IsSim /\ ~(Text.kind \in {"none", "empty"}) /\ ~IsNumberObject(Text))
    => ~resp.raised /\ resp.msg # "" /\ resp.delta = None

\* C5: a load that fails (missing default dataset, or missing columns)
\* leaves the table, the report and the stats as they were, so they remain
\* those of the most recent load that succeeded.
C5_FailedLoadKeepsState ==
    [][(resp'.handler \in {"on_load_uploaded", "on_load_builtin"} /\ resp'.raised)
        => (state_df' = state_df /\ state_by' = state_by
            /\ state_meta' = state_meta /\ lastLoad' = lastLoad)]_vars

C5_Witness ==
    /\ IsLoad
    /\ resp.raised
    /\ resp.error = "gr.Error"
    /\ state_df # None
    /\ lastLoad # None

\* The text is empty or absent, or a key->number mapping whose values are
\* all zero.
IsZeroAllocation(t) ==
    \/ t.kind \in {"none", "empty"}
    \/ IsNumberObject(t) /\ \A k \in DOMAIN t.obj : t.obj[k].v = 0

\* C6 (as claimed): on a non-empty report an empty, absent or all-zero
\* allocation yields a result with new_weighted_roi = 0.00 and
\* new_weighted_cltv = 0.00.
C6_ZeroAllocationProjectsZero ==
    (IsSim /\ HasReport /\ IsZeroAllocation(Text))
    => /\ ~resp.raised
       /\ resp.delta # None
       /\ resp.delta[1].new_weighted_roi = Zero
       /\ resp.delta[1].new_weighted_cltv = Zero

\* C7: a simulation with parseable text while no report is held, or while
\* the held report is empty, returns the "Load data first." message and a
\* null result without raising; a simulation never changes the session state.
C7_NoReportRecovered ==
    /\ []((IsSim /\ Text.kind # "garbage" /\ ~HasReport)
            => (~resp.raised /\ resp.msg = "Load data first." /\ resp.delta = None))
    /\ [][resp'.handler = "_simulate"
            => (state_df' = state_df /\ state_by' = state_by
                /\ state_meta' = state_meta /\ files' = files)]_vars

C7_Witness ==
    /\ IsSim
    /\ IsNumberObject(Text)
    /\ state_by = Some(<< >>)
    /\ resp.msg = "Load data first."

\* ch has the highest avg_roi of the report.
IsHighestRoi(ch) ==
    /\ ~IsNaN(RowOf(ch).avg_roi)
    /\ \A c \in Range(state_by[1]) : ~Less(RowOf(ch).avg_roi, c.avg_roi)

\* The mapping names report channels only and gives a positive weight to ch
\* alone.
IsAllOn(t, ch) ==
    /\ IsNumberObject(t)
    /\ DOMAIN t.obj \subseteq ReportChannels
    /\ ch \in DOMAIN t.obj
    /\ \A k \in DOMAIN t.obj : (t.obj[k].v > 0) <=> (k = ch)

\* C8 (as claimed): on a non-empty report, an allocation that gives a
\* positive weight (of any magnitude) to the highest-avg_roi channel alone
\* yields new_weighted_roi = that channel's avg_roi rounded to 2 decimals.
C8_AllOnHighestRoi ==
    (IsSim /\ HasReport) =>
        \A ch \in ReportChannels :
            (IsAllOn(Text, ch) /\ IsHighestRoi(ch))
            => /\ ~resp.raised
               /\ resp.delta # None
               /\ resp.delta[1].new_weighted_roi = Round2(RowOf(ch).avg_roi)

\* C8 (amended): the same, for reports in which the avg_roi of every other
\* channel is finite.
C8_AllOnHighestRoiFinite ==
    (IsSim /\ HasReport) =>
        \A ch \in ReportChannels :
            (/\ IsAllOn(Text, ch)
             /\ IsHighestRoi(ch)
             /\ \A c \in Range(state_by[1]) : c.channel # ch => IsFinite(c.avg_roi))
            => /\ ~resp.raised
               /\ resp.delta # None
               /\ resp.delta[1].new_weighted_roi = Round2(RowOf(ch).avg_roi)

C8_Witness ==
    /\ IsSim
    /\ HasReport
    /\ Len(state_by[1]) = 2
    /\ \E ch \in ReportChannels :
          /\ IsAllOn(Text, ch)
          /\ IsHighestRoi(ch)
          /\ Text.obj[ch].v = 100
          /\ resp.delta = Some([resp.delta[1] EXCEPT !.new_weighted_roi = <<1, 4>>])
          /\ \A c \in Range(state_by[1]) : c.avg_roi = <<1, 4>>

\* The stored triple is entirely unset, or it is a result of computing the
\* metrics of the input table of the most recent load that succeeded.
TripleOfLastLoad ==
    \/ Triple = <<None, None, None>> /\ lastLoad = None
    \/ /\ lastLoad # None
       /\ \E o \in compute_metrics(lastLoad[1]) : ~o.raised /\ o.outputs = Triple

\* C9: in every reachable session state the stored (table, report, stats) is
\* entirely unset or exactly what the most recent successful load computed
\* from its one input table; simulate and export never change it.
C9_TripleWholesale ==
    /\ []TripleOfLastLoad
    /\ [][resp'.handler \in {"_simulate", "_downloads"}
            => (state_df' = state_df /\ state_by' = state_by
                /\ state_meta' = state_meta)]_vars

C9_Witness ==
    /\ IsSim
    /\ files # None
    /\ lastLoad # None
    /\ Len(lastLoad[1].rows) = 1
    /\ files[1][1] # state_df[1]

\* C10: export raises 'Load data first.' and writes no file while no load
\* has succeeded; once a load has succeeded it returns the two fixed paths
\* and the files hold the enriched table and the channel summary of the most
\* recent successful load.
C10_ExportAfterLoad ==
    /\ lastLoad = None => files = None
    /\ resp.handler = "_downloads" =>
          IF lastLoad = None
          THEN resp.raised /\ resp.msg = "Load data first."
          ELSE /\ ~resp.raised
               /\ resp.paths = <<"/tmp/customer_with_metrics.csv", "/tmp/channel_summary.csv">>
               /\ files = Some(<<state_df[1], state_by[1]>>)
               /\ \E o \in compute_metrics(lastLoad[1]) :
                     ~o.raised /\ files[1] = <<o.outputs[1][1], o.outputs[2][1]>>

C10_Witness ==
    /\ resp.handler = "_downloads"
    /\ ~resp.raised
    /\ files # None
    /\ Len(files[1][2]) = 1
====
